---- MODULE Spec2Model ----
(***************************************************************************)
(* Model of the team-memory service (src/src/services/teamMemoryService.js)*)
(* : the memory store (cache, source, load time, refresh), and the two     *)
(* injectors that merge the cached memory into a request envelope.         *)
(*                                                                         *)
(* Text is a sequence of tokens.  A token is a record [k, ts]: k names the *)
(* token (a character, the start tag, the end tag, the constitution block) *)
(* and ts is the decimal timestamp a tag carries (0 for other tokens).     *)
(***************************************************************************)
EXTENDS Integers, Sequences, FiniteSets, TLC

(***************************************************************************)
(* Bounds of the model.                                                    *)
(***************************************************************************)
MaxTime == 2
MaxInflight == 1
MaxCalls == 1

(***************************************************************************)
(* Tokens and text.                                                        *)
(***************************************************************************)
Ch(c) == [k |-> c, ts |-> 0]
StartTag(t) == [k |-> "START", ts |-> t]
EndTag(t) == [k |-> "END", ts |-> t]
NL == Ch("\n")
SP == Ch(" ")
Constitution == Ch("CONSTITUTION")

IsSpace(tok) == tok.k \in {" ", "\n"}

\* String.prototype.trim
RECURSIVE TrimLeft(_)
TrimLeft(s) ==
  IF s = <<>> THEN <<>>
  ELSE IF IsSpace(Head(s)) THEN TrimLeft(Tail(s)) ELSE s

RECURSIVE TrimRight(_)
TrimRight(s) ==
  IF s = <<>> THEN <<>>
  ELSE IF IsSpace(s[Len(s)]) THEN TrimRight(SubSeq(s, 1, Len(s) - 1)) ELSE s

Trim(s) == TrimRight(TrimLeft(s))

\* a JS string is truthy when it is not empty
Truthy(s) == s # <<>>

\* a test that whitespace passes
NonBlank_Truthy(s) == s # <<>>

\* content && content.trim()
NonBlank(s) == Truthy(s) /\ Truthy(Trim(s))

\* index of the first token of kind k at or after position from, 0 if none
RECURSIVE FirstIdx(_, _, _)
FirstIdx(s, k, from) ==
  IF from > Len(s) THEN 0
  ELSE IF s[from].k = k THEN from ELSE FirstIdx(s, k, from + 1)

\* text.match(memoryBlockRegex), searching from position from: the leftmost
\* start tag that is followed by an end tag, up to the nearest such end tag
MatchFrom(s, from) ==
  LET i == FirstIdx(s, "START", from)
      j == IF i = 0 THEN 0 ELSE FirstIdx(s, "END", i + 1)
  IN  [found |-> (i # 0 /\ j # 0), from |-> i, to |-> j]

memoryBlockRegex(s) == MatchFrom(s, 1)

\* a parse that yields 0 whatever the tag says
ExistingTimestamp_Zero(s, m) == 0

\* parseInt(existingMatch[0].match(/TEAM_MEMORY_START:(\d+)/)[1], 10)
ExistingTimestamp(s, m) == s[m.from].ts

\* the replacement patterns String.prototype.replace expands in a
\* replacement string: $$  $&  $`  $'
RECURSIVE GetSubstitution(_, _, _, _)
GetSubstitution(repl, matched, before, after) ==
  IF repl = <<>> THEN <<>>
  ELSE IF Head(repl).k = "$" /\ Len(repl) > 1 /\ repl[2].k \in {"$", "&", "`", "'"}
       THEN (CASE repl[2].k = "$" -> <<Ch("$")>>
               [] repl[2].k = "&" -> matched
               [] repl[2].k = "`" -> before
               [] repl[2].k = "'" -> after)
            \o GetSubstitution(Tail(Tail(repl)), matched, before, after)
       ELSE <<Head(repl)>> \o GetSubstitution(Tail(repl), matched, before, after)

\* originalText.replace(memoryBlockRegex, wrappedMemory), a match m given
ReplaceBlock(s, m, repl) ==
  LET before == SubSeq(s, 1, m.from - 1)
      matched == SubSeq(s, m.from, m.to)
      after == SubSeq(s, m.to + 1, Len(s))
  IN  before \o GetSubstitution(repl, matched, before, after) \o after

\* a wrapping that puts the banner in whatever the caller asks
WrapMemoryContent_BannerAlways(memoryContent, timestamp, withConstitution) ==
  <<StartTag(timestamp), NL, Constitution, NL>>
    \o Trim(memoryContent) \o <<NL, EndTag(timestamp)>>

\* _wrapMemoryContent
WrapMemoryContent(memoryContent, timestamp, withConstitution) ==
  IF withConstitution
  THEN <<StartTag(timestamp), NL, Constitution, NL>>
         \o Trim(memoryContent) \o <<NL, EndTag(timestamp)>>
  ELSE <<StartTag(timestamp), NL>> \o Trim(memoryContent) \o <<NL, EndTag(timestamp)>>

(***************************************************************************)
(* State.                                                                  *)
(***************************************************************************)
VARIABLES
  cachedMemory,      \* this.cachedMemory: [null, v]
  lastLoadedSource,  \* this.lastLoadedSource
  lastLoadedTime,    \* this.lastLoadedTime, epoch milliseconds or NullTime
  refreshTimer,      \* this.refreshTimer: TRUE while an interval timer is held
  activeTimers,      \* interval timers created and not yet cleared
  config,            \* config.claude.teamMemory and config.openai.teamMemory
  now,               \* the clock read by new Date() and Date.now()
  files,             \* the three candidate local files
  inflight,          \* refreshMemory calls awaiting loadTeamMemoryFromUrl
  initPc,            \* position of _initializeMemory
  body,              \* the request envelope the relay is handling
  pre,               \* the envelope before the last injection call
  last,              \* what the last injection call did
  repeat,            \* the last call came right after a call of the same injector
  clean,             \* the envelope arrived without any marker tag
  trace,             \* whether the calls on the store and the timer are recorded
  ev,                \* the last recorded call on the store or the timer
  stopCalled,        \* recorded: stopAutoRefresh was called, and startAutoRefresh
                     \* has not been called by a caller since
  counters,          \* the rate-limit counters kept in Redis: [tokens, cost, calls]
  call               \* the last call of a function of rateLimitHelper.js

vars == <<cachedMemory, lastLoadedSource, lastLoadedTime, refreshTimer, activeTimers, config,
          now, files, inflight, initPc, body, pre, last, repeat, clean, trace, ev,
          stopCalled, counters, call>>

\* the state of rateLimitHelper.js
rateVars == <<counters, call>>

NullTime == -1
Null == [null |-> TRUE, v |-> <<>>]
Str(s) == [null |-> FALSE, v |-> s]

\* the three fields the store replaces together
store == [cachedMemory |-> cachedMemory,
          lastLoadedSource |-> lastLoadedSource,
          lastLoadedTime |-> lastLoadedTime]

(***************************************************************************)
(* Configuration (read on every call).                                     *)
(***************************************************************************)
getClaudeConfig == config.claude
getOpenAIConfig == config.openai

\* url && url.trim(): a url is "none" (absent or empty), "blank" or "set"
UrlTruthy(u) == u # "none"
UrlNonBlank(u) == u = "set"

isEnabled == getClaudeConfig.enabled \/ getOpenAIConfig.enabled

DefaultClaudePrefixes == << <<"claude-sonnet">> >>
DefaultOpenAIPrefixes == << <<"gpt-">>, <<"o1-">>, <<"o3-">> >>

\* a test that any prefix passes
StartsWith_Always(model, prefix) == TRUE

\* model.startsWith(prefix)
StartsWith(model, prefix) ==
  Len(prefix) <= Len(model) /\ SubSeq(model, 1, Len(prefix)) = prefix

\* modelPrefixes.some((prefix) => model.startsWith(prefix))
MatchesPrefix(model, prefixes) ==
  \E i \in 1..Len(prefixes) : StartsWith(model, prefixes[i])

(***************************************************************************)
(* The memory store.                                                       *)
(***************************************************************************)
\* _loadFromFile: the content of the first existing candidate, '' when none
\* exists or the read fails
RECURSIVE FirstExisting(_, _)
FirstExisting(fs, i) ==
  IF i > Len(fs) THEN 0
  ELSE IF fs[i].kind # "absent" THEN i ELSE FirstExisting(fs, i + 1)

\* a read that prefers the last existing candidate
LoadFromFile_LastExisting ==
  LET ex == {i \in 1..Len(files) : files[i].kind # "absent"}
      i == IF ex = {} THEN 0 ELSE CHOOSE k \in ex : \A j \in ex : j <= k
  IN  IF i = 0 THEN <<>>
      ELSE IF files[i].kind = "unreadable" THEN <<>>
      ELSE files[i].v

LoadFromFile ==
  LET i == FirstExisting(files, 1)
  IN  IF i = 0 THEN <<>>
      ELSE IF files[i].kind = "unreadable" THEN <<>>
      ELSE files[i].v

\* an assignment that forgets lastLoadedTime
Loaded_NoTime(content, source) ==
  [cachedMemory |-> Str(content),
   lastLoadedSource |-> source,
   lastLoadedTime |-> NullTime]

\* the assignment of cachedMemory, lastLoadedSource and lastLoadedTime
Loaded(content, source) ==
  [cachedMemory |-> Str(content),
   lastLoadedSource |-> source,
   lastLoadedTime |-> now]

\* loadTeamMemory, from store st: the store afterwards and the returned text
LoadTeamMemory(st) ==
  IF ~st.cachedMemory.null THEN [st |-> st, ret |-> st.cachedMemory.v]
  ELSE IF NonBlank(getClaudeConfig.content)
    THEN [st |-> Loaded(getClaudeConfig.content, "content-claude"),
          ret |-> getClaudeConfig.content]
  ELSE IF NonBlank(getOpenAIConfig.content)
    THEN [st |-> Loaded(getOpenAIConfig.content, "content-openai"),
          ret |-> getOpenAIConfig.content]
  ELSE IF UrlNonBlank(getClaudeConfig.url) THEN [st |-> st, ret |-> <<>>]
  ELSE IF UrlNonBlank(getOpenAIConfig.url) THEN [st |-> st, ret |-> <<>>]
  ELSE IF Truthy(LoadFromFile)
    THEN [st |-> Loaded(LoadFromFile, "file"), ret |-> LoadFromFile]
  ELSE [st |-> st, ret |-> <<>>]

\* a refresh that looks at the url before the static content
RefreshKind_UrlFirst ==
  IF UrlNonBlank(getClaudeConfig.url) \/ UrlNonBlank(getOpenAIConfig.url) THEN "url"
  ELSE IF NonBlank(getClaudeConfig.content) \/ NonBlank(getOpenAIConfig.content)
    THEN "static"
  ELSE "file"

\* refreshMemory up to its await: what the call does
\*   "static": returns at once;  "url": awaits the fetch;  "file": reads files
RefreshKind ==
  IF NonBlank(getClaudeConfig.content) \/ NonBlank(getOpenAIConfig.content)
    THEN "static"
  ELSE IF UrlTruthy(getClaudeConfig.url)
    THEN (IF UrlNonBlank(getClaudeConfig.url) THEN "url" ELSE "file")
  ELSE IF UrlNonBlank(getOpenAIConfig.url) THEN "url"
  ELSE "file"

\* refreshMemory, priority 4: the store after the local-file read
RefreshFromFile(st) ==
  IF Truthy(LoadFromFile) THEN Loaded(LoadFromFile, "file") ELSE st

\* a refresh that never takes over what the fetch delivered
RefreshFromUrl_Never(st, res) == st

\* a refresh that drops the cache when the fetch fails
RefreshFromUrl_ClearsOnFailure(st, res) ==
  IF res.ok /\ NonBlank(res.v)
  THEN Loaded(res.v, IF UrlTruthy(getClaudeConfig.url) THEN "url-claude" ELSE "url-openai")
  ELSE [cachedMemory |-> Null, lastLoadedSource |-> "null", lastLoadedTime |-> NullTime]

\* refreshMemory after the await: res is [ok, v], the fetch's outcome
RefreshFromUrl(st, res) ==
  IF res.ok /\ NonBlank(res.v)
  THEN Loaded(res.v, IF UrlTruthy(getClaudeConfig.url) THEN "url-claude" ELSE "url-openai")
  ELSE st

\* clearCache
Cleared == [cachedMemory |-> Null, lastLoadedSource |-> "null", lastLoadedTime |-> NullTime]

(***************************************************************************)
(* Request envelopes.                                                      *)
(*   body    [model, system, input, realCC, rest]                          *)
(*   model   [kind, v]         kind: "string", "absent", "number"          *)
(*   system  [kind, segs, str] kind: "array", "string", "absent"           *)
(*   segment [kind, text, cc]  kind: "object", "null", "string"            *)
(*   input   [kind, items, str]                                            *)
(*   item    [kind, type, role, content]   content: [kind, items]          *)
(*   content item [kind, type, text]                                       *)
(*   text    [kind, v]         kind: "string", "undefined", "number"       *)
(* rest stands for every other field (tools, messages, instructions).      *)
(***************************************************************************)
TextOf(s) == [kind |-> "string", v |-> s]
NoText == [kind |-> "undefined", v |-> <<>>]
NumText == [kind |-> "number", v |-> <<>>]

\* a validation that verifies every request
isRealClaudeCodeRequest_Always(b) == TRUE

\* isRealClaudeCodeRequest; the validator's verdict is the envelope's realCC
isRealClaudeCodeRequest(b) ==
  IF b.model.kind = "absent" \/ (b.model.kind = "string" /\ b.model.v = <<>>)
  THEN FALSE
  ELSE b.realCC

\* the { type: 'text', text: wrappedMemory } block appended to system
teamMemoryBlock(wrappedMemory, useCacheControl) ==
  [kind |-> "object", text |-> TextOf(wrappedMemory), cc |-> useCacheControl]

\* the user message put in front of input
memoryMessage(wrappedMemory) ==
  [kind |-> "object", type |-> "message", role |-> "user",
   content |-> [kind |-> "array",
                items |-> << [kind |-> "object", type |-> "input_text",
                              text |-> TextOf(wrappedMemory)] >>]]

\* an injection call's outcome: the envelope and the store afterwards,
\* whether it threw, the branch it took, the timestamp and memory it used
Outcome(b, st, threw, path, ts, mem) ==
  [body |-> b, st |-> st, threw |-> threw, path |-> path, ts |-> ts, mem |-> mem]

\* system[1] gets cache_control when configured and not yet present
WithCacheControl(seg, useCacheControl) ==
  IF useCacheControl /\ ~seg.cc THEN [seg EXCEPT !.cc = TRUE] ELSE seg

\* injectToClaudeFormat from "if (body.system.length > 1)" on; b.system is an
\* array here
MergeClaude(b, st, memoryContent, timestamp, useCacheControl) ==
  LET wrappedMemory == WrapMemoryContent(memoryContent, timestamp, TRUE)
      segs == b.system.segs
      out(nb, threw, path) == Outcome(nb, st, threw, path, timestamp, memoryContent)
  IN
  IF Len(segs) > 1 THEN
    LET seg == segs[2]
        originalText ==
          IF seg.kind = "object" /\ seg.text.kind = "string" THEN seg.text.v ELSE <<>>
        existingMatch == memoryBlockRegex(originalText)
        put(t) ==
          [b EXCEPT !.system.segs[2] =
             WithCacheControl([seg EXCEPT !.text = TextOf(t)], useCacheControl)]
    IN
    IF seg.kind = "null" THEN out(b, TRUE, "throw")
    ELSE IF seg.kind = "object" /\ seg.text.kind = "number" THEN out(b, TRUE, "throw")
    ELSE IF existingMatch.found THEN
      IF ExistingTimestamp(originalText, existingMatch) = timestamp
      THEN out(b, FALSE, "noop")
      ELSE out(put(ReplaceBlock(originalText, existingMatch, wrappedMemory)),
               FALSE, "update")
    ELSE IF seg.kind = "string" THEN out(b, TRUE, "throw")
    ELSE out(put(wrappedMemory \o <<NL, NL>> \o originalText), FALSE, "prepend")
  ELSE
    out([b EXCEPT !.system.segs =
           Append(segs, teamMemoryBlock(wrappedMemory, useCacheControl))],
        FALSE, "append")

\* if (!Array.isArray(body.system)) body.system = []
EnsureSystemArray(b) ==
  IF b.system.kind = "array" THEN b
  ELSE [b EXCEPT !.system = [kind |-> "array", segs |-> <<>>, str |-> <<>>]]

\* injectToClaudeFormat(body, isRealClaudeCode); isRealClaudeCode is "null",
\* "true" or "false"
injectToClaudeFormat(b, isRealClaudeCode) ==
  LET claudeConfig == getClaudeConfig
      skip == Outcome(b, store, FALSE, "skip", NullTime, <<>>)
      modelPrefixes == IF claudeConfig.modelPrefixes.set
                       THEN claudeConfig.modelPrefixes.v ELSE DefaultClaudePrefixes
      isRealCC == IF isRealClaudeCode # "null" THEN isRealClaudeCode = "true"
                  ELSE isRealClaudeCodeRequest(b)
      ld == LoadTeamMemory(store)
      timestamp == IF ld.st.lastLoadedTime # NullTime THEN ld.st.lastLoadedTime ELSE now
  IN
  IF ~claudeConfig.enabled THEN skip
  ELSE IF b.model.kind # "string" THEN skip
  ELSE IF ~MatchesPrefix(b.model.v, modelPrefixes) THEN skip
  ELSE IF claudeConfig.onlyForRealClaudeCode /\ ~isRealCC THEN skip
  ELSE IF ~NonBlank(ld.ret) THEN Outcome(b, ld.st, FALSE, "blank", NullTime, <<>>)
  ELSE MergeClaude(EnsureSystemArray(b), ld.st, ld.ret, timestamp,
                   claudeConfig.useCacheControl)

\* an update that splices the new marker into the old text
UpdateOpenAIText_InPlace(firstText, existingMatch, wrappedMemory) ==
  ReplaceBlock(firstText, existingMatch, wrappedMemory)

\* firstInput.content[0].text = wrappedMemory
UpdateOpenAIText(firstText, existingMatch, wrappedMemory) == wrappedMemory

\* a push in place of the unshift
Unshift_Push(items, message) == Append(items, message)

\* body.input.unshift(memoryMessage)
Unshift(items, message) == <<message>> \o items

\* injectToOpenAIResponsesFormat from "const firstInput = body.input[0]" on;
\* b.input is an array here
MergeOpenAI(b, st, memoryContent, timestamp) ==
  LET wrappedMemory == WrapMemoryContent(memoryContent, timestamp, FALSE)
      items == b.input.items
      out(nb, threw, path) == Outcome(nb, st, threw, path, timestamp, memoryContent)
      insert == out([b EXCEPT !.input.items = Unshift(items, memoryMessage(wrappedMemory))],
                    FALSE, "insert")
  IN
  IF items = <<>> THEN insert
  ELSE
    LET firstInput == items[1] IN
    IF firstInput.kind = "null" THEN insert
    ELSE IF ~(firstInput.type = "message" /\ firstInput.role = "user"
              /\ firstInput.content.kind = "array"
              /\ Len(firstInput.content.items) > 0) THEN insert
    ELSE
      LET first == firstInput.content.items[1] IN
      IF first.kind = "null" THEN out(b, TRUE, "throw")
      ELSE IF first.type # "input_text" THEN insert
      ELSE IF first.text.kind # "string" THEN out(b, TRUE, "throw")
      ELSE
        LET firstText == first.text.v
            existingMatch == memoryBlockRegex(firstText)
        IN
        IF ~existingMatch.found THEN insert
        ELSE IF ExistingTimestamp(firstText, existingMatch) = timestamp
          THEN out(b, FALSE, "noop")
        ELSE out([b EXCEPT !.input.items[1].content.items[1].text =
                    TextOf(UpdateOpenAIText(firstText, existingMatch, wrappedMemory))],
                 FALSE, "update")

\* if (!Array.isArray(body.input)) body.input = []
EnsureInputArray(b) ==
  IF b.input.kind = "array" THEN b
  ELSE [b EXCEPT !.input = [kind |-> "array", items |-> <<>>, str |-> <<>>]]

\* injectToOpenAIResponsesFormat(body)
injectToOpenAIResponsesFormat(b) ==
  LET openaiConfig == getOpenAIConfig
      skip == Outcome(b, store, FALSE, "skip", NullTime, <<>>)
      modelPrefixes == IF openaiConfig.modelPrefixes.set
                       THEN openaiConfig.modelPrefixes.v ELSE DefaultOpenAIPrefixes
      ld == LoadTeamMemory(store)
      timestamp == IF ld.st.lastLoadedTime # NullTime THEN ld.st.lastLoadedTime ELSE now
  IN
  IF ~openaiConfig.enabled THEN skip
  ELSE IF b.model.kind # "string" THEN skip
  ELSE IF ~MatchesPrefix(b.model.v, modelPrefixes) THEN skip
  ELSE IF ~NonBlank(ld.ret) THEN Outcome(b, ld.st, FALSE, "blank", NullTime, <<>>)
  ELSE MergeOpenAI(EnsureInputArray(b), ld.st, ld.ret, timestamp)

(***************************************************************************)
(* The inputs the model draws from.                                        *)
(***************************************************************************)
\* memory texts a source can deliver
MemB == <<Ch("b")>>
MemC == <<SP, Ch("c"), NL>>
MemDollar == <<Ch("$"), Ch("&")>>
MemBlank == <<SP>>

UrlBodies == {MemB, MemC, MemDollar, MemBlank, <<>>}
FetchResults == {[ok |-> FALSE, v |-> <<>>]} \cup {[ok |-> TRUE, v |-> c] : c \in UrlBodies}

Absent == [kind |-> "absent", v |-> <<>>]
FileOf(c) == [kind |-> "file", v |-> c]
Unreadable == [kind |-> "unreadable", v |-> <<>>]
FileStates ==
  { <<Absent, Absent, Absent>>,
    <<Absent, FileOf(MemB), FileOf(MemC)>>,
    <<FileOf(MemC), Absent, Absent>>,
    <<FileOf(MemBlank), FileOf(MemB), Absent>>,
    <<Unreadable, FileOf(MemB), Absent>> }

NoPrefixes == [set |-> FALSE, v |-> <<>>]
ClaudeBase ==
  [enabled |-> TRUE, content |-> <<>>, url |-> "none", modelPrefixes |-> NoPrefixes,
   refreshInterval |-> 0, onlyForRealClaudeCode |-> FALSE, useCacheControl |-> FALSE]
OpenAIBase ==
  [enabled |-> TRUE, content |-> <<>>, url |-> "none", modelPrefixes |-> NoPrefixes,
   refreshInterval |-> 0]

Configs ==
  { \* a url on the Claude side, no timer
    [claude |-> [ClaudeBase EXCEPT !.url = "set"], openai |-> OpenAIBase],
    \* a url on the OpenAI side, a timer, cache_control wanted
    [claude |-> [ClaudeBase EXCEPT !.useCacheControl = TRUE],
     openai |-> [OpenAIBase EXCEPT !.url = "set", !.refreshInterval = 1]],
    \* static content on the Claude side, cache_control wanted
    [claude |-> [ClaudeBase EXCEPT !.content = MemB, !.useCacheControl = TRUE,
                                   !.refreshInterval = 1],
     openai |-> OpenAIBase],
    \* local files only
    [claude |-> ClaudeBase, openai |-> OpenAIBase] }

\* envelope texts
Plain == <<Ch("a")>>
OldBlock(t) == <<StartTag(t), NL, Ch("m"), NL, EndTag(t)>>
Around(t) == <<Ch("x")>> \o OldBlock(t) \o <<Ch("y")>>

ClaudeModel == [kind |-> "string", v |-> <<"claude-sonnet", "-4">>]
CodexModel == [kind |-> "string", v |-> <<"gpt-", "5-codex">>]

NoSystem == [kind |-> "absent", segs |-> <<>>, str |-> <<>>]
StringSystem == [kind |-> "string", segs |-> <<>>, str |-> Plain]
SystemOf(segs) == [kind |-> "array", segs |-> segs, str |-> <<>>]
NoInput == [kind |-> "absent", items |-> <<>>, str |-> <<>>]
StringInput == [kind |-> "string", items |-> <<>>, str |-> Plain]
InputOf(items) == [kind |-> "array", items |-> items, str |-> <<>>]

Seg(t, cc) == [kind |-> "object", text |-> TextOf(t), cc |-> cc]
SegNoText == [kind |-> "object", text |-> NoText, cc |-> FALSE]
SegNumText == [kind |-> "object", text |-> NumText, cc |-> FALSE]
SegNull == [kind |-> "null", text |-> NoText, cc |-> FALSE]
SegString == [kind |-> "string", text |-> NoText, cc |-> FALSE]
S0 == Seg(<<Ch("p")>>, TRUE)

CItem(type, text) == [kind |-> "object", type |-> type, text |-> text]
CNull == [kind |-> "null", type |-> "", text |-> NoText]
Msg(role, citems) ==
  [kind |-> "object", type |-> "message", role |-> role,
   content |-> [kind |-> "array", items |-> citems]]
MsgStringContent ==
  [kind |-> "object", type |-> "message", role |-> "user",
   content |-> [kind |-> "string", items |-> <<>>]]
ItemNull ==
  [kind |-> "null", type |-> "", role |-> "", content |-> [kind |-> "absent", items |-> <<>>]]
UserText(t) == Msg("user", <<CItem("input_text", TextOf(t))>>)
AssistantText(t) == Msg("assistant", <<CItem("output_text", TextOf(t))>>)

EnvTimes == {1, 2}

ClaudeSystems ==
  { NoSystem, StringSystem, SystemOf(<<>>), SystemOf(<<S0>>),
    SystemOf(<<S0, Seg(Plain, FALSE)>>),
    SystemOf(<<S0, Seg(Plain, TRUE), Seg(Plain, TRUE)>>),
    SystemOf(<<S0, SegNoText>>), SystemOf(<<S0, SegNumText>>),
    SystemOf(<<S0, SegNull>>), SystemOf(<<S0, SegString>>) }
  \cup { SystemOf(<<S0, Seg(Around(t), FALSE)>>) : t \in EnvTimes }

OpenAIInputs ==
  { NoInput, StringInput, InputOf(<<>>),
    InputOf(<<UserText(Plain)>>),
    InputOf(<<UserText(Plain), AssistantText(Plain), UserText(<<Ch("q")>>)>>),
    InputOf(<<Msg("system", <<CItem("input_text", TextOf(Plain))>>), UserText(Plain)>>),
    InputOf(<<Msg("user", <<CItem("input_text", NoText)>>)>>),
    InputOf(<<Msg("user", <<CNull>>)>>),
    InputOf(<<ItemNull, UserText(Plain)>>),
    InputOf(<<MsgStringContent>>) }
  \cup { InputOf(<<Msg("user", <<CItem("input_text", TextOf(Around(t))),
                                 CItem("input_text", TextOf(Plain))>>),
                   AssistantText(Plain)>>) : t \in EnvTimes }

Bodies ==
  { [model |-> ClaudeModel, system |-> sys, input |-> NoInput, realCC |-> TRUE,
     rest |-> "rest"] : sys \in ClaudeSystems }
  \cup
  { [model |-> CodexModel, system |-> NoSystem, input |-> inp, realCC |-> FALSE,
     rest |-> "rest"] : inp \in OpenAIInputs }

(***************************************************************************)
(* The refresh timer.                                                      *)
(***************************************************************************)
\* claudeConfig.refreshInterval || openaiConfig.refreshInterval || 0
refreshInterval ==
  IF getClaudeConfig.refreshInterval # 0 THEN getClaudeConfig.refreshInterval
  ELSE getOpenAIConfig.refreshInterval

\* stopAutoRefresh, from timer state t = [refreshTimer, activeTimers]
stopAutoRefresh(t) ==
  IF t.refreshTimer
  THEN [refreshTimer |-> FALSE, activeTimers |-> t.activeTimers - 1]
  ELSE t

\* a start that returns on a disabled configuration before it stops the timer
startAutoRefresh_ReturnsFirst(t) ==
  IF refreshInterval <= 0 THEN t
  ELSE IF NonBlank(getClaudeConfig.content) \/ NonBlank(getOpenAIConfig.content)
    THEN t
  ELSE [refreshTimer |-> TRUE,
        activeTimers |-> (IF t.refreshTimer THEN stopAutoRefresh(t) ELSE t).activeTimers + 1]

\* a start that does not stop the timer it holds
startAutoRefresh_NoStop(t) ==
  IF refreshInterval <= 0 THEN t
  ELSE IF NonBlank(getClaudeConfig.content) \/ NonBlank(getOpenAIConfig.content)
    THEN t
  ELSE [refreshTimer |-> TRUE, activeTimers |-> t.activeTimers + 1]

\* a start that installs the timer only when the store already holds content
startAutoRefresh_OnlyWhenLoaded(t) ==
  LET stopped == IF t.refreshTimer THEN stopAutoRefresh(t) ELSE t IN
  IF refreshInterval <= 0 THEN stopped
  ELSE IF NonBlank(getClaudeConfig.content) \/ NonBlank(getOpenAIConfig.content)
    THEN stopped
  ELSE IF cachedMemory.null THEN stopped
  ELSE [refreshTimer |-> TRUE, activeTimers |-> stopped.activeTimers + 1]

\* startAutoRefresh
startAutoRefresh(t) ==
  LET stopped == IF t.refreshTimer THEN stopAutoRefresh(t) ELSE t IN
  IF refreshInterval <= 0 THEN stopped
  ELSE IF NonBlank(getClaudeConfig.content) \/ NonBlank(getOpenAIConfig.content)
    THEN stopped
  ELSE [refreshTimer |-> TRUE, activeTimers |-> stopped.activeTimers + 1]

timer == [refreshTimer |-> refreshTimer, activeTimers |-> activeTimers]

(***************************************************************************)
(* The rate-limit helper (src/src/utils/rateLimitHelper.js).               *)
(* A message is a sequence of words [w, up]: w is the word in lower case   *)
(* and up tells that some letter of it is written in upper case.           *)
(*   payload [kind, v, error, message, detail]                             *)
(*           kind: "string", "object", "null", "throwing" (an object whose *)
(*           error property throws when it is read)                        *)
(*   error   [kind, v, message, error, code, type]                         *)
(*           kind: "absent", "string", "object"                            *)
(* The fields message, detail, code, ... are Null or Str(text).            *)
(***************************************************************************)
W(w, up) == [w |-> w, up |-> up]

\* String.prototype.toLowerCase
toLowerCase(s) == [i \in 1..Len(s) |-> [s[i] EXCEPT !.up = FALSE]]

\* String.prototype.includes
includes(s, pattern) ==
  \E i \in 0..(Len(s) - Len(pattern)) : SubSeq(s, i + 1, i + Len(pattern)) = pattern

\* variant: the last pattern is written in lower case like the others
RATE_LIMIT_PATTERNS_LowerCase ==
  << <<W("rate limit", FALSE)>>, <<W("rate_limit", FALSE)>>, <<W("ratelimit", FALSE)>>,
     <<W("too many requests", FALSE)>>, <<W("request limit", FALSE)>>,
     <<W("quota exceeded", FALSE)>>, <<W("quota", FALSE)>>,
     <<W("insufficient_quota", FALSE)>>, <<W("exceeded your current quota", FALSE)>>,
     <<W("limit exceeded", FALSE)>>, <<W("billing hard limit", FALSE)>>,
     <<W("throttled", FALSE)>>, <<W("overloaded", FALSE)>>, <<W("slow down", FALSE)>>,
     <<W("zh: qingqiu guoyu pinfan", FALSE)>>, <<W("zh: pinlv xianzhi", FALSE)>>, <<W("zh: jifen buzu", FALSE)>>,
     <<W("zh: yali guoda", FALSE)>>, <<W("zh: edu yi yongwan", FALSE)>>,
     <<W("internal server error", FALSE)>> >>

\* the five Chinese phrases of lines 24-28 are written in pinyin
RATE_LIMIT_PATTERNS ==
  << <<W("rate limit", FALSE)>>, <<W("rate_limit", FALSE)>>, <<W("ratelimit", FALSE)>>,
     <<W("too many requests", FALSE)>>, <<W("request limit", FALSE)>>,
     <<W("quota exceeded", FALSE)>>, <<W("quota", FALSE)>>,
     <<W("insufficient_quota", FALSE)>>, <<W("exceeded your current quota", FALSE)>>,
     <<W("limit exceeded", FALSE)>>, <<W("billing hard limit", FALSE)>>,
     <<W("throttled", FALSE)>>, <<W("overloaded", FALSE)>>, <<W("slow down", FALSE)>>,
     <<W("zh: qingqiu guoyu pinfan", FALSE)>>, <<W("zh: pinlv xianzhi", FALSE)>>, <<W("zh: jifen buzu", FALSE)>>,
     <<W("zh: yali guoda", FALSE)>>, <<W("zh: edu yi yongwan", FALSE)>>,
     <<W("internal server error", TRUE)>> >>

\* RATE_LIMIT_PATTERNS.some((pattern) => lowerMessage.includes(pattern))
matchesPattern(lowerMessage) ==
  \E i \in 1..Len(RATE_LIMIT_PATTERNS) : includes(lowerMessage, RATE_LIMIT_PATTERNS[i])

\* extractErrorMessage of ./errorSanitizer: the payload itself when it is text;
\* of an object the first text among error.message, error.error, error,
\* message, detail; Null when there is none
extractErrorMessage(p) ==
  IF p.kind = "string" THEN Str(p.v)
  ELSE IF p.kind # "object" THEN Null
  ELSE IF p.error.kind = "object" /\ ~p.error.message.null THEN p.error.message
  ELSE IF p.error.kind = "object" /\ ~p.error.error.null THEN p.error.error
  ELSE IF p.error.kind = "string" THEN Str(p.error.v)
  ELSE IF ~p.message.null THEN p.message
  ELSE p.detail

\* isRateLimitError(responseData): [threw, ret]
isRateLimitError(responseData) ==
  LET errorMessage == extractErrorMessage(responseData) IN
  [threw |-> FALSE,
   ret |-> IF responseData.kind = "throwing" THEN FALSE
           ELSE IF errorMessage.null \/ errorMessage.v = <<>> THEN FALSE
           ELSE matchesPattern(toLowerCase(errorMessage.v))]

\* variant: the body is inspected before the status code is looked at
isRateLimitErrorWithStatus_BodyFirst(statusCode, b) ==
  IF b.kind = "null" \/ (b.kind = "string" /\ b.v = <<>>)
    THEN [threw |-> FALSE, ret |-> FALSE]
  ELSE IF b.kind = "throwing" THEN [threw |-> TRUE, ret |-> FALSE]
  ELSE IF statusCode = 429 THEN [threw |-> FALSE, ret |-> TRUE]
  ELSE LET message == extractErrorMessage(b) IN
       [threw |-> FALSE,
        ret |-> ~message.null /\ message.v # <<>> /\ matchesPattern(toLowerCase(message.v))]

\* isRateLimitErrorWithStatus(statusCode, body): [threw, ret]
isRateLimitErrorWithStatus(statusCode, b) ==
  LET message == extractErrorMessage(b)
      candidateValues ==
        {v \in {b.error.code, b.error.type, b.error.error} : ~v.null /\ v.v # <<>>}
  IN
  IF statusCode = 429 THEN [threw |-> FALSE, ret |-> TRUE]
  ELSE IF b.kind = "null" \/ (b.kind = "string" /\ b.v = <<>>)
    THEN [threw |-> FALSE, ret |-> FALSE]
  ELSE IF b.kind = "throwing" THEN [threw |-> TRUE, ret |-> FALSE]
  ELSE IF ~message.null /\ message.v # <<>> /\ matchesPattern(toLowerCase(message.v))
    THEN [threw |-> FALSE, ret |-> TRUE]
  ELSE IF b.kind = "object" /\ b.error.kind = "object"
          /\ \E v \in candidateValues : matchesPattern(toLowerCase(v.v))
    THEN [threw |-> FALSE, ret |-> TRUE]
  ELSE [threw |-> FALSE, ret |-> FALSE]

\* response bodies
NoError ==
  [kind |-> "absent", v |-> <<>>, message |-> Null, error |-> Null, code |-> Null,
   type |-> Null]
ErrObj(message, error, code, type) ==
  [kind |-> "object", v |-> <<>>, message |-> message, error |-> error, code |-> code,
   type |-> type]
Obj(error, message, detail) ==
  [kind |-> "object", v |-> <<>>, error |-> error, message |-> message, detail |-> detail]

\* every keyword as the source writes it, in lower case and in upper case
\* (the Chinese phrases have no case), alone and inside a sentence, and two
\* messages without any keyword
Messages ==
  LET n == Len(RATE_LIMIT_PATTERNS)
      upper(s) == [i \in 1..Len(s) |-> [s[i] EXCEPT !.up = TRUE]]
      keywords == {RATE_LIMIT_PATTERNS[i] : i \in 1..n}
                    \cup {toLowerCase(RATE_LIMIT_PATTERNS[i]) : i \in 1..n}
                    \cup {upper(RATE_LIMIT_PATTERNS[i]) : i \in (1..14) \cup {n}}
  IN  keywords
        \cup {<<W("error:", TRUE)>> \o k \o <<W("please retry", FALSE)>> : k \in keywords}
        \cup {<<W("invalid request", TRUE)>>, <<W("missing required parameter", TRUE)>>}

Payloads ==
  LET text(m) == [Obj(NoError, Null, Null) EXCEPT !.kind = "string", !.v = m]
      shapes(m) ==
        { text(m),
          Obj(ErrObj(Str(m), Null, Null, Null), Null, Null),
          Obj(ErrObj(Null, Str(m), Null, Null), Null, Null),
          Obj(ErrObj(Null, Null, Str(m), Null), Null, Null),
          Obj(ErrObj(Null, Null, Null, Str(m)), Null, Null),
          Obj([NoError EXCEPT !.kind = "string", !.v = m], Null, Null),
          Obj(NoError, Str(m), Null),
          Obj(NoError, Null, Str(m)) }
  IN  UNION {shapes(m) : m \in Messages}
        \cup { text(<<>>),
               Obj(NoError, Null, Null),
               [Obj(NoError, Null, Null) EXCEPT !.kind = "null"],
               [Obj(NoError, Null, Null) EXCEPT !.kind = "throwing"],
               Obj([NoError EXCEPT !.kind = "string", !.v = <<W("invalid request", TRUE)>>],
                   Str(<<W("missing required parameter", TRUE)>>), Null) }

\* toNumber: a usage value is [fin, n], fin telling that Number(value) is finite
toNumber(value) == IF value.fin THEN value.n ELSE 0

\* variant: the secondary capability is asked only when the primary one throws
totalCostOf_FallbackOnThrowOnly(primary, fallback) ==
  IF primary.kind = "nan" THEN [cost |-> 0, nan |-> TRUE, fellBack |-> FALSE]
  ELSE IF primary.kind = "number" THEN [cost |-> primary.n, nan |-> FALSE, fellBack |-> FALSE]
  ELSE IF primary.kind = "none" THEN [cost |-> 0, nan |-> FALSE, fellBack |-> FALSE]
  ELSE [cost |-> IF fallback.kind = "number" THEN fallback.n ELSE 0,
        nan |-> fallback.kind = "nan", fellBack |-> TRUE]

\* lines 126-155: the cost of the usage from the primary pricing capability,
\* from the secondary one when the primary one left totalCost at 0.
\* An outcome is [kind, n]: "throws", "none" (no value of type number),
\* "nan" (the number NaN) or "number" (the finite number n).
\* [cost, nan, fellBack]: nan tells that totalCost is NaN (cost is then 0)
totalCostOf(primary, fallback) ==
  IF primary.kind = "nan" THEN [cost |-> 0, nan |-> TRUE, fellBack |-> FALSE]
  ELSE IF primary.kind = "number" /\ primary.n # 0
    THEN [cost |-> primary.n, nan |-> FALSE, fellBack |-> FALSE]
  ELSE [cost |-> IF fallback.kind = "number" THEN fallback.n ELSE 0,
        nan |-> fallback.kind = "nan", fellBack |-> TRUE]

\* variant: the client is looked for only when the cost is about to be written
updateRateLimitCounters_LateClientCheck(a, c) ==
  LET zero == [totalTokens |-> 0, totalCost |-> 0, ratedCost |-> 0, nan |-> FALSE]
      totalTokens == toNumber(a.usage[1]) + toNumber(a.usage[2])
                       + toNumber(a.usage[3]) + toNumber(a.usage[4])
      c1 == IF totalTokens > 0 /\ a.info.tokenCountKey /\ a.client
            THEN [c EXCEPT !.tokens = @ + totalTokens] ELSE c
      t == totalCostOf(a.primary, a.fallback)
  IN
  IF a.info.null
    THEN [threw |-> FALSE, error |-> "none", totals |-> zero, counters |-> c,
          priced |-> FALSE, fellBack |-> FALSE]
  ELSE IF ~a.client /\ t.cost > 0 /\ a.info.costCountKey
    THEN [threw |-> TRUE, error |-> "redis", totals |-> zero, counters |-> c1,
          priced |-> TRUE, fellBack |-> t.fellBack]
  ELSE [threw |-> FALSE, error |-> "none",
        totals |-> [totalTokens |-> totalTokens, totalCost |-> t.cost,
                    ratedCost |-> t.cost, nan |-> t.nan],
        counters |-> IF a.client /\ t.cost > 0 /\ a.info.costCountKey
                     THEN [c1 EXCEPT !.cost = @ + t.cost] ELSE c1,
        priced |-> TRUE, fellBack |-> t.fellBack]

\* updateRateLimitCounters, from the counters c, under the arguments and the
\* outcomes of the capabilities it calls:
\*   a.info      rateLimitInfo: [null, tokenCountKey, costCountKey]
\*   a.client    redis.getClient() returns a client
\*   a.usage     the four token values of usageSummary
\*   a.primary   outcome of pricingService.calculateCost
\*   a.fallback  outcome of CostCalculator.calculateCost
\*   a.keyId     a keyId is passed
\*   a.rated     outcome of apiKeyService.calculateRatedCost
\*   a.incrby, a.incrbyfloat   the write succeeds
\* The result tells whether the call rejected and with which error ("redis":
\* no client, line 112; "write": a rejected incrby / incrbyfloat), the totals
\* it returned, the counters afterwards and which pricing capabilities were
\* called.
updateRateLimitCounters(a, c) ==
  LET zero == [totalTokens |-> 0, totalCost |-> 0, ratedCost |-> 0, nan |-> FALSE]
      out(error, totals, cs, priced, fellBack) ==
        [threw |-> error # "none", error |-> error, totals |-> totals, counters |-> cs,
         priced |-> priced, fellBack |-> fellBack]
      totalTokens == toNumber(a.usage[1]) + toNumber(a.usage[2])
                       + toNumber(a.usage[3]) + toNumber(a.usage[4])
      writesTokens == totalTokens > 0 /\ a.info.tokenCountKey
      c1 == IF writesTokens THEN [c EXCEPT !.tokens = @ + totalTokens] ELSE c
      t == totalCostOf(a.primary, a.fallback)
      ratedCost == IF t.cost > 0 /\ a.keyId /\ a.rated.kind = "number"
                   THEN a.rated.n ELSE t.cost
      writesCost == ratedCost > 0 /\ a.info.costCountKey
      totals == [totalTokens |-> totalTokens, totalCost |-> t.cost,
                 ratedCost |-> ratedCost, nan |-> t.nan]
  IN
  IF a.info.null THEN out("none", zero, c, FALSE, FALSE)
  ELSE IF ~a.client THEN out("redis", zero, c, FALSE, FALSE)
  ELSE IF writesTokens /\ ~a.incrby THEN out("write", zero, c, FALSE, FALSE)
  ELSE IF writesCost /\ ~a.incrbyfloat THEN out("write", zero, c1, TRUE, t.fellBack)
  ELSE out("none", totals,
           IF writesCost THEN [c1 EXCEPT !.cost = @ + ratedCost] ELSE c1,
           TRUE, t.fellBack)

UpdateArgs ==
  LET infos == { [null |-> TRUE, tokenCountKey |-> FALSE, costCountKey |-> FALSE] }
                 \cup { [null |-> FALSE, tokenCountKey |-> t, costCountKey |-> k] :
                          t \in BOOLEAN, k \in BOOLEAN }
      num(n) == [fin |-> TRUE, n |-> n]
      nan == [fin |-> FALSE, n |-> 0]
      usages == { <<num(0), num(0), num(0), num(0)>>, <<num(1), num(0), num(2), num(0)>>,
                  <<num(1), nan, num(0), num(1)>> }
      outcomes(n) == { [kind |-> "throws", n |-> 0], [kind |-> "none", n |-> 0],
                       [kind |-> "nan", n |-> 0], [kind |-> "number", n |-> 0],
                       [kind |-> "number", n |-> n] }
  IN  [info : infos, client : BOOLEAN, usage : usages, primary : outcomes(2),
       fallback : outcomes(3), keyId : BOOLEAN,
       rated : { [kind |-> "throws", n |-> 0], [kind |-> "number", n |-> 4] },
       incrby : BOOLEAN, incrbyfloat : BOOLEAN]

\* no function of the helper has been called
NoRateCall ==
  [op |-> "none", statusCode |-> 0, body |-> Obj(NoError, Null, Null),
   args |-> CHOOSE a \in UpdateArgs : TRUE, before |-> [tokens |-> 0, cost |-> 0, calls |-> 0],
   threw |-> FALSE, error |-> "none", ret |-> FALSE,
   totals |-> [totalTokens |-> 0, totalCost |-> 0, ratedCost |-> 0, nan |-> FALSE],
   priced |-> FALSE, fellBack |-> FALSE]

RateIdle ==
  /\ counters = [tokens |-> 0, cost |-> 0, calls |-> 0]
  /\ call = NoRateCall

(***************************************************************************)
(* Initial state: the service as its constructor leaves it.  The           *)
(* constructor runs _initializeMemory up to its await.                     *)
(***************************************************************************)
NoCall == [op |-> "none", path |-> "none", threw |-> FALSE,
           ts |-> NullTime, mem |-> <<>>]

\* number of start and end tags in a text
RECURSIVE TagCount(_)
TagCount(s) ==
  IF s = <<>> THEN 0
  ELSE (IF Head(s).k \in {"START", "END"} THEN 1 ELSE 0) + TagCount(Tail(s))

\* every text of an envelope, in order
RECURSIVE ContentTexts(_)
ContentTexts(citems) ==
  IF citems = <<>> THEN <<>>
  ELSE <<Head(citems).text.v>> \o ContentTexts(Tail(citems))

RECURSIVE InputTexts(_)
InputTexts(items) ==
  IF items = <<>> THEN <<>>
  ELSE ContentTexts(Head(items).content.items) \o InputTexts(Tail(items))

RECURSIVE SystemTexts(_)
SystemTexts(segs) ==
  IF segs = <<>> THEN <<>>
  ELSE <<Head(segs).text.v>> \o SystemTexts(Tail(segs))

BodyTexts(b) ==
  <<b.system.str, b.input.str>> \o SystemTexts(b.system.segs) \o InputTexts(b.input.items)

RECURSIVE SumOver(_, _)
SumOver(texts, i) ==
  IF i > Len(texts) THEN 0 ELSE TagCount(texts[i]) + SumOver(texts, i + 1)

SetStore(st) ==
  /\ cachedMemory' = st.cachedMemory
  /\ lastLoadedSource' = st.lastLoadedSource
  /\ lastLoadedTime' = st.lastLoadedTime

SetTimer(t) ==
  /\ refreshTimer' = t.refreshTimer
  /\ activeTimers' = t.activeTimers

ResetCall ==
  /\ pre' = body
  /\ last' = NoCall
  /\ repeat' = FALSE

\* a recorded call: op names it, res is what it did, arg its argument or its
\* caller, run whether a timer was held before it, ret the text it returned
NoEv == [op |-> "none", res |-> "", arg |-> "", run |-> FALSE, ret |-> <<>>]
Ev(op, res, arg, run, ret) ==
  IF trace THEN [op |-> op, res |-> res, arg |-> arg, run |-> run, ret |-> ret]
  ELSE NoEv

\* the constructor: fields set to null, _initializeMemory run up to its await
Constructed ==
  /\ now = 1
  /\ LET st == IF isEnabled /\ RefreshKind = "file"
               THEN RefreshFromFile(Cleared) ELSE Cleared
     IN  /\ cachedMemory = st.cachedMemory
         /\ lastLoadedSource = st.lastLoadedSource
         /\ lastLoadedTime = st.lastLoadedTime
  /\ refreshTimer = FALSE
  /\ activeTimers = 0
  /\ inflight = 0
  /\ initPc = IF ~isEnabled THEN "done"
              ELSE IF RefreshKind = "url" THEN "fetching" ELSE "resume"
  /\ pre = body
  /\ last = NoCall
  /\ repeat = FALSE
  /\ clean = (SumOver(BodyTexts(body), 1) = 0)
  /\ ev = NoEv
  /\ stopCalled = FALSE

Init ==
  /\ config \in Configs
  /\ files \in (IF RefreshKind = "file" THEN FileStates ELSE {<<Absent, Absent, Absent>>})
  /\ body \in Bodies
  /\ trace = FALSE
  /\ Constructed
  /\ RateIdle

(***************************************************************************)
(* Actions.                                                                *)
(***************************************************************************)
\* the clock advances
Tick ==
  /\ now < MaxTime
  /\ now' = now + 1
  /\ UNCHANGED <<cachedMemory, lastLoadedSource, lastLoadedTime, refreshTimer,
                 activeTimers, config, files, inflight, initPc, body, pre, last,
                 repeat, clean, trace, ev, stopCalled, rateVars>>

\* the local files change
ChangeFiles ==
  /\ RefreshKind = "file"
  /\ files' \in FileStates \ {files}
  /\ ResetCall
  /\ ev' = NoEv
  /\ UNCHANGED <<cachedMemory, lastLoadedSource, lastLoadedTime, refreshTimer,
                 activeTimers, config, now, inflight, initPc, body, clean, trace, stopCalled, rateVars>>

CallRecord(op, r) ==
  [op |-> op, path |-> r.path, threw |-> r.threw, ts |-> r.ts, mem |-> r.mem]

\* the call before was a call of injector op that got past the gating, and
\* nothing has touched the store since
Repeats(op) == last.op = op /\ last.path \notin {"none", "skip", "blank"}

\* the relay calls injectToClaudeFormat(body, isRealClaudeCode)
InjectClaude ==
  \E isRealClaudeCode \in {"null", "true", "false"} :
    LET r == injectToClaudeFormat(body, isRealClaudeCode) IN
    /\ body' = r.body
    /\ SetStore(r.st)
    /\ pre' = body
    /\ last' = CallRecord("claude", r)
    /\ repeat' = Repeats("claude")
    /\ ev' = Ev("inject", "", isRealClaudeCode, refreshTimer, <<>>)
    /\ UNCHANGED <<refreshTimer, activeTimers, config, now, files, inflight, initPc,
                   clean, trace, stopCalled, rateVars>>

\* the relay calls injectToOpenAIResponsesFormat(body)
InjectOpenAI ==
  LET r == injectToOpenAIResponsesFormat(body) IN
  /\ body' = r.body
  /\ SetStore(r.st)
  /\ pre' = body
  /\ last' = CallRecord("openai", r)
  /\ repeat' = Repeats("openai")
  /\ ev' = NoEv
  /\ UNCHANGED <<refreshTimer, activeTimers, config, now, files, inflight, initPc,
                 clean, trace, stopCalled, rateVars>>

\* a caller calls loadTeamMemory()
LoadTeamMemoryCall ==
  /\ SetStore(LoadTeamMemory(store).st)
  /\ ResetCall
  /\ ev' = Ev("load", IF cachedMemory.null THEN "miss" ELSE "hit", "", refreshTimer,
              LoadTeamMemory(store).ret)
  /\ UNCHANGED <<refreshTimer, activeTimers, config, now, files, inflight, initPc,
                 body, clean, trace, stopCalled, rateVars>>

\* refreshMemory() up to its await, or to its end when it does not await
RefreshBegin ==
  /\ RefreshKind = "url" => inflight < MaxInflight
  /\ inflight' = IF RefreshKind = "url" THEN inflight + 1 ELSE inflight
  /\ SetStore(IF RefreshKind = "file" THEN RefreshFromFile(store) ELSE store)

\* a caller calls refreshMemory()
RefreshMemory ==
  /\ RefreshBegin
  /\ ResetCall
  /\ ev' = Ev("refresh", RefreshKind, "", refreshTimer, <<>>)
  /\ UNCHANGED <<refreshTimer, activeTimers, config, now, files, initPc, body, clean,
                 trace, stopCalled, rateVars>>

\* how a fetch ended: the promise rejected (network error, timeout, status
\* other than 200), or resolved with a blank body, or with content
FetchKind(res) ==
  IF ~res.ok THEN "rejected" ELSE IF ~NonBlank(res.v) THEN "blank" ELSE "loaded"

\* the fetch of a refreshMemory call ends and the call resumes
FetchDone ==
  \E res \in FetchResults :
    /\ inflight > 0
    /\ initPc # "resume"
    /\ inflight' = inflight - 1
    /\ SetStore(RefreshFromUrl(store, res))
    /\ ResetCall
    /\ ev' = Ev("fetch", FetchKind(res),
                IF ev.op = "tick" /\ ev.res = "url" /\ inflight = 1 THEN "timer" ELSE "",
                refreshTimer, <<>>)
    /\ UNCHANGED <<refreshTimer, activeTimers, config, now, files, initPc, body, clean,
                   trace, stopCalled, rateVars>>

\* the fetch of _initializeMemory's refreshMemory ends
InitFetchDone ==
  \E res \in FetchResults :
    /\ initPc = "fetching"
    /\ initPc' = "resume"
    /\ SetStore(RefreshFromUrl(store, res))
    /\ ResetCall
    /\ ev' = Ev("fetch", FetchKind(res), "init", refreshTimer, <<>>)
    /\ UNCHANGED <<refreshTimer, activeTimers, config, now, files, inflight, body, clean,
                   trace, stopCalled, rateVars>>

\* _initializeMemory resumes after its await and starts the timer
InitResume ==
  /\ initPc = "resume"
  /\ initPc' = "done"
  /\ SetTimer(startAutoRefresh(timer))
  /\ ev' = Ev("start", "", "init", refreshTimer, <<>>)
  /\ UNCHANGED <<cachedMemory, lastLoadedSource, lastLoadedTime, config, now, files,
                 inflight, body, pre, last, repeat, clean, trace, stopCalled, rateVars>>

\* a caller calls startAutoRefresh()
StartAutoRefresh ==
  /\ SetTimer(startAutoRefresh(timer))
  /\ ev' = Ev("start", "", "", refreshTimer, <<>>)
  /\ stopCalled' = FALSE
  /\ UNCHANGED <<cachedMemory, lastLoadedSource, lastLoadedTime, config, now, files,
                 inflight, initPc, body, pre, last, repeat, clean, trace, rateVars>>

\* a caller calls stopAutoRefresh()
StopAutoRefresh ==
  /\ SetTimer(stopAutoRefresh(timer))
  /\ ev' = Ev("stop", "", "", refreshTimer, <<>>)
  /\ stopCalled' = trace
  /\ UNCHANGED <<cachedMemory, lastLoadedSource, lastLoadedTime, config, now, files,
                 inflight, initPc, body, pre, last, repeat, clean, trace, rateVars>>

\* the interval timer fires: its callback calls refreshMemory()
TimerFire ==
  /\ activeTimers > 0
  /\ initPc # "resume"
  /\ RefreshBegin
  /\ ResetCall
  /\ ev' = Ev("tick", RefreshKind, "", refreshTimer, <<>>)
  /\ UNCHANGED <<refreshTimer, activeTimers, config, now, files, initPc, body, clean,
                 trace, stopCalled, rateVars>>

\* a caller calls clearCache()
ClearCache ==
  /\ SetStore(Cleared)
  /\ ResetCall
  /\ ev' = Ev("clear", "", "", refreshTimer, <<>>)
  /\ UNCHANGED <<refreshTimer, activeTimers, config, now, files, inflight, initPc,
                 body, clean, trace, stopCalled, rateVars>>

Next ==
  \/ Tick
  \/ ChangeFiles
  \/ InjectClaude
  \/ InjectOpenAI
  \/ LoadTeamMemoryCall
  \/ RefreshMemory
  \/ FetchDone
  \/ InitFetchDone
  \/ InitResume
  \/ StartAutoRefresh
  \/ StopAutoRefresh
  \/ TimerFire
  \/ ClearCache

Spec == Init /\ [][Next]_vars

(***************************************************************************)
(* The store and the timer on their own, under a configuration that is     *)
(* read on every call and may change between calls.  The calls are         *)
(* recorded in ev.                                                         *)
(***************************************************************************)
StoreConfigs ==
  { \* a url on the Claude side, a timer
    [claude |-> [ClaudeBase EXCEPT !.url = "set", !.refreshInterval = 1],
     openai |-> OpenAIBase],
    \* static content on both sides, a url as well, a timer interval
    [claude |-> [ClaudeBase EXCEPT !.content = MemB],
     openai |-> [OpenAIBase EXCEPT !.content = MemC, !.url = "set",
                                   !.refreshInterval = 1]],
    \* blank content on the Claude side, static content on the OpenAI side
    [claude |-> [ClaudeBase EXCEPT !.content = MemBlank, !.url = "set"],
     openai |-> [OpenAIBase EXCEPT !.content = MemC]],
    \* local files only, a negative interval in front of a positive one
    [claude |-> [ClaudeBase EXCEPT !.refreshInterval = -1],
     openai |-> [OpenAIBase EXCEPT !.refreshInterval = 1]] }

StoreBody ==
  [model |-> ClaudeModel, system |-> SystemOf(<<S0>>), input |-> NoInput,
   realCC |-> TRUE, rest |-> "rest"]

InitStore ==
  /\ config \in StoreConfigs
  /\ files \in FileStates
  /\ body = StoreBody
  /\ trace = TRUE
  /\ Constructed
  /\ RateIdle

\* config.claude.teamMemory or config.openai.teamMemory is changed
ConfigChange ==
  /\ config' \in StoreConfigs \ {config}
  /\ ResetCall
  /\ ev' = NoEv
  /\ UNCHANGED <<cachedMemory, lastLoadedSource, lastLoadedTime, refreshTimer,
                 activeTimers, now, files, inflight, initPc, body, clean, trace, stopCalled, rateVars>>

NextStore ==
  \/ Tick
  \/ ChangeFiles
  \/ ConfigChange
  \/ LoadTeamMemoryCall
  \/ RefreshMemory
  \/ FetchDone
  \/ InitFetchDone
  \/ InitResume
  \/ StartAutoRefresh
  \/ StopAutoRefresh
  \/ TimerFire
  \/ ClearCache

SpecStore == InitStore /\ [][NextStore]_vars

(***************************************************************************)
(* Properties.                                                             *)
(***************************************************************************)
\* the marker regions of a text: the successive matches of memoryBlockRegex
RECURSIVE Regions(_, _)
Regions(s, from) ==
  LET m == MatchFrom(s, from)
  IN  IF m.found THEN <<m>> \o Regions(s, m.to + 1) ELSE <<>>

RECURSIVE RegionSum(_, _)
RegionSum(texts, i) ==
  IF i > Len(texts) THEN 0 ELSE Len(Regions(texts[i], 1)) + RegionSum(texts, i + 1)

MarkerCount(b) == RegionSum(BodyTexts(b), 1)

\* C1: a call of an injector that comes right after a call of the same
\* injector which got past the gating, with nothing touching the store in
\* between, leaves the envelope as the first call left it.
C1_Idempotent == repeat => body = pre

\* C4: an envelope that arrived without a marker never holds more than one
\* marker region, whatever injections, refreshes and clearCache calls came.
C4_AtMostOneMarker == clean => MarkerCount(body) <= 1

\* C7: no injection call throws.
C7_NeverThrows == ~last.threw

\* the last step was a call of injector op that got past the gating
Injected(op) == last.op = op /\ last.path \notin {"none", "skip", "blank"}

\* the envelope has the Claude target field, system[1].text, as a string
HasClaudeTarget(b) ==
  /\ b.system.kind = "array"
  /\ Len(b.system.segs) > 1
  /\ b.system.segs[2].kind = "object"
  /\ b.system.segs[2].text.kind = "string"

ClaudeTarget(b) == b.system.segs[2].text.v

\* the envelope has the OpenAI-Responses target field,
\* input[0].content[0].text of a user message, as a string
HasOpenAITarget(b) ==
  /\ b.input.kind = "array"
  /\ Len(b.input.items) > 0
  /\ b.input.items[1].kind = "object"
  /\ b.input.items[1].type = "message"
  /\ b.input.items[1].role = "user"
  /\ b.input.items[1].content.kind = "array"
  /\ Len(b.input.items[1].content.items) > 0
  /\ b.input.items[1].content.items[1].kind = "object"
  /\ b.input.items[1].content.items[1].type = "input_text"
  /\ b.input.items[1].content.items[1].text.kind = "string"

OpenAITarget(b) == b.input.items[1].content.items[1].text.v

\* text old holds a marker whose timestamp is not t
HasStaleMarker(old, t) ==
  memoryBlockRegex(old).found /\ old[memoryBlockRegex(old).from].ts # t

\* text new is text old with the region m replaced by something
Around_Kept(old, m, new) ==
  LET before == SubSeq(old, 1, m.from - 1)
      after == SubSeq(old, m.to + 1, Len(old))
  IN  /\ Len(new) >= Len(before) + Len(after)
      /\ SubSeq(new, 1, Len(before)) = before
      /\ SubSeq(new, Len(new) - Len(after) + 1, Len(new)) = after

\* text old holds a marker region whose start timestamp is t
HasMarkerOf(old, t) ==
  \E i \in 1..Len(Regions(old, 1)) : old[Regions(old, 1)[i].from].ts = t

\* C2 as stated: an OpenAI-Responses call that finds a marker of another
\* timestamp in input[0].content[0].text keeps the text around that marker.
C2_UpdateKeepsSurroundingText ==
  (last.op = "openai" /\ HasOpenAITarget(pre)
     /\ HasStaleMarker(OpenAITarget(pre), lastLoadedTime))
  => /\ HasOpenAITarget(body)
     /\ Around_Kept(OpenAITarget(pre), memoryBlockRegex(OpenAITarget(pre)),
                    OpenAITarget(body))

\* C2 amended: such a call, once past the gating, replaces the whole text of
\* input[0].content[0] by the newly built marker (no banner) and changes
\* nothing else in the envelope.
C2_UpdateReplacesWholeText ==
  (Injected("openai") /\ HasOpenAITarget(pre)
     /\ HasStaleMarker(OpenAITarget(pre), lastLoadedTime))
  => body = [pre EXCEPT !.input.items[1].content.items[1].text =
               TextOf(WrapMemoryContent(cachedMemory.v, lastLoadedTime, FALSE))]

C2_Witness ==
  /\ Injected("openai") /\ HasOpenAITarget(pre)
  /\ HasStaleMarker(OpenAITarget(pre), lastLoadedTime)
  /\ OpenAITarget(pre) = Around(1)
  /\ lastLoadedTime = 2

\* C3: a Claude call that finds a marker of another timestamp in
\* system[1].text replaces exactly that region by the newly built marker and
\* keeps the text before and after it.
C3_UpdateReplacesExactlyMarker ==
  (Injected("claude") /\ HasClaudeTarget(pre)
     /\ HasStaleMarker(ClaudeTarget(pre), lastLoadedTime))
  => LET old == ClaudeTarget(pre)
         m == memoryBlockRegex(old)
     IN  /\ HasClaudeTarget(body)
         /\ ClaudeTarget(body) =
              SubSeq(old, 1, m.from - 1)
                \o WrapMemoryContent(cachedMemory.v, lastLoadedTime, TRUE)
                \o SubSeq(old, m.to + 1, Len(old))

\* C5: a call that finds, in its target field, a marker whose start
\* timestamp is the current loadedAt changes nothing and does not throw.
C5_SameTimestampNoOp ==
  (\/ (last.op = "claude" /\ HasClaudeTarget(pre)
         /\ HasMarkerOf(ClaudeTarget(pre), lastLoadedTime))
   \/ (last.op = "openai" /\ HasOpenAITarget(pre)
         /\ HasMarkerOf(OpenAITarget(pre), lastLoadedTime)))
  => (body = pre /\ ~last.threw)

C5_Witness ==
  /\ Injected("claude") /\ HasClaudeTarget(pre)
  /\ HasMarkerOf(ClaudeTarget(pre), lastLoadedTime)
  /\ config.claude.useCacheControl
  /\ ~pre.system.segs[2].cc

\* C6: an OpenAI-Responses call on an input of N items leaves N + 1 items,
\* the old ones following the new first one, or N items of which all but the
\* first, which held a marker, are the old ones.
C6_HistoryKept ==
  (last.op = "openai" /\ pre.input.kind = "array")
  => LET old == pre.input.items
         new == body.input.items
     IN  /\ body.input.kind = "array"
         /\ \/ new = old
            \/ /\ Len(new) = Len(old) + 1
               /\ Tail(new) = old
               /\ MarkerCount([body EXCEPT !.input.items = <<new[1]>>]) >= 1
            \/ /\ Len(new) = Len(old)
               /\ Len(old) > 0
               /\ Tail(new) = Tail(old)
               /\ HasOpenAITarget(pre)
               /\ memoryBlockRegex(OpenAITarget(pre)).found

C6_Witness ==
  /\ Injected("openai")
  /\ Len(pre.input.items) = 3
  /\ Len(body.input.items) = 4

\* C8: an injection call changes nothing but its target: the other fields
\* are as before, and so is every segment or item but the one merged into
\* or the one added.
C8_Frame ==
  /\ last.op # "none" =>
       /\ body.model = pre.model
       /\ body.rest = pre.rest
       /\ body.realCC = pre.realCC
  /\ last.op = "claude" =>
       /\ body.input = pre.input
       /\ body.system.str = pre.system.str
       /\ LET old == pre.system.segs
              new == body.system.segs
          IN  \/ body.system = pre.system
              \/ /\ Len(old) > 1
                 /\ Len(new) = Len(old)
                 /\ \A i \in 1..Len(old) : i # 2 => new[i] = old[i]
              \/ /\ Len(old) <= 1
                 /\ Len(new) = Len(old) + 1
                 /\ SubSeq(new, 1, Len(old)) = old
  /\ last.op = "openai" =>
       /\ body.system = pre.system
       /\ body.input.str = pre.input.str
       /\ LET old == pre.input.items
              new == body.input.items
          IN  \/ body.input = pre.input
              \/ /\ Len(new) = Len(old) + 1
                 /\ Tail(new) = old
              \/ /\ HasOpenAITarget(pre)
                 /\ new = [old EXCEPT ![1].content.items[1].text =
                             new[1].content.items[1].text]

\* number of system segments that carry cache_control
RECURSIVE CacheCount(_)
CacheCount(segs) ==
  IF segs = <<>> THEN 0
  ELSE (IF Head(segs).kind = "object" /\ Head(segs).cc THEN 1 ELSE 0)
       + CacheCount(Tail(segs))

\* C9: a Claude call never leaves more system segments with cache_control
\* than it found.
C9_NoNewCacheControl ==
  last.op = "claude" => CacheCount(body.system.segs) <= CacheCount(pre.system.segs)

\* C10 as stated: in every step the cached content changes exactly when
\* loadedAt changes.
C10_ContentIffLoadedAt ==
  [][(cachedMemory' # cachedMemory) <=> (lastLoadedTime' # lastLoadedTime)]_vars

\* C10 amended: content and loadedAt are written together: a step that
\* changes the cached content sets loadedAt to the clock's value, or to null
\* when it clears the content, and content is null exactly when loadedAt is.
C10_WrittenTogether ==
  /\ [][(cachedMemory' # cachedMemory) =>
          (lastLoadedTime' = IF cachedMemory'.null THEN NullTime ELSE now')]_vars
  /\ [](cachedMemory.null <=> lastLoadedTime = NullTime)

C10_Witness ==
  /\ ~cachedMemory.null
  /\ lastLoadedSource = "url-openai"
  /\ lastLoadedTime = 2
  /\ inflight = 1

(***************************************************************************)
(* The store under refreshes that fail.                                    *)
(***************************************************************************)
\* the recorded call is the end of a fetch that delivered nothing
FetchFailed(e) == e.op = "fetch" /\ e.res \in {"rejected", "blank"}

\* C11: a refresh whose fetch is rejected (network error, timeout, status
\* other than 200) or delivers an empty or blank body leaves cachedMemory,
\* lastLoadedSource and lastLoadedTime as they were, and loadTeamMemory still
\* returns the content that was cached
C11_FailedRefreshKeepsCache ==
  [][FetchFailed(ev') =>
       /\ store' = store
       /\ ~cachedMemory.null => LoadTeamMemory(store)'.ret = cachedMemory.v]_vars

\* a fetch has failed while content of an earlier fetch was cached
C11_Witness ==
  /\ FetchFailed(ev)
  /\ ~cachedMemory.null
  /\ lastLoadedSource \in {"url-claude", "url-openai"}

(***************************************************************************)
(* Markers and store snapshots.                                            *)
(***************************************************************************)
\* the last step was an injection call that wrote a marker
Wrote(op) == last.op = op /\ last.path \in {"update", "prepend", "append", "insert"}

\* the text the last injection call wrote its marker into
WrittenText ==
  IF last.op = "claude"
  THEN (IF last.path = "append" THEN body.system.segs[Len(body.system.segs)].text.v
        ELSE ClaudeTarget(body))
  ELSE OpenAITarget(body)

\* C12: whatever refreshes, timer ticks and clearCache calls are interleaved
\* with the injection calls, the marker an injection call writes is the
\* wrapping of one store snapshot: its start and end timestamps are both that
\* snapshot's lastLoadedTime and the content between them is that snapshot's
\* cachedMemory
C12_NoTornSnapshot ==
  (Wrote("claude") \/ Wrote("openai")) =>
    LET m == memoryBlockRegex(WrittenText) IN
    /\ lastLoadedTime # NullTime
    /\ ~cachedMemory.null
    /\ m.found
    /\ WrittenText[m.from].ts = lastLoadedTime
    /\ WrittenText[m.to].ts = lastLoadedTime
    /\ SubSeq(WrittenText, m.from, m.to) =
         WrapMemoryContent(cachedMemory.v, lastLoadedTime, last.op = "claude")

(***************************************************************************)
(* Static content.                                                         *)
(***************************************************************************)
\* non-blank static content is configured for one of the platforms
StaticConfigured ==
  NonBlank(config.claude.content) \/ NonBlank(config.openai.content)

\* a non-blank url is configured for one of the platforms
UrlConfigured == UrlNonBlank(config.claude.url) \/ UrlNonBlank(config.openai.url)

\* C13: while non-blank static content is configured for either platform, no
\* call starts a fetch, be it refreshMemory called by hand, by the timer or
\* at startup, and also when a url is configured
C13_StaticNeverFetches ==
  /\ StaticConfigured => (inflight = 0 /\ initPc # "fetching")
  /\ [][StaticConfigured =>
          /\ inflight' <= inflight
          /\ initPc' = "fetching" => initPc = "fetching"]_vars

\* the timer has called refreshMemory while static content and a url were
\* configured
C13_Witness ==
  /\ ev.op = "tick"
  /\ StaticConfigured
  /\ UrlConfigured
  /\ inflight = 0

\* the static content loadTeamMemory prefers, and the source it records for it
StaticContent ==
  IF NonBlank(config.claude.content) THEN config.claude.content
  ELSE config.openai.content

StaticSource ==
  IF NonBlank(config.claude.content) THEN "content-claude" ELSE "content-openai"

\* C14: once a refreshMemory call has completed while non-blank static
\* content is configured, loadTeamMemory returns that static content, Claude's
\* before OpenAI's, and records a static source, whatever an earlier url or
\* file load left in the cache
C14_StaticHasPriority ==
  (ev.op \in {"refresh", "tick"} /\ StaticConfigured) =>
    LET ld == LoadTeamMemory(store) IN
    /\ ld.ret = StaticContent
    /\ ld.st.lastLoadedSource = StaticSource

(***************************************************************************)
(* The local files as a fallback of loadTeamMemory.                        *)
(***************************************************************************)
\* this step is a loadTeamMemory call that finds nothing cached and no static
\* content configured
LoadMiss ==
  /\ ev'.op = "load"
  /\ now' = now
  /\ cachedMemory.null
  /\ ~StaticConfigured

\* C15 as stated: a loadTeamMemory call that finds nothing cached, no static
\* content configured and a candidate file existing returns the content of
\* the first existing candidate and caches it with source and load time,
\* without a fetch, also when a url is configured
C15_FileFallback ==
  [][(LoadMiss /\ FirstExisting(files, 1) # 0) =>
       LET f == files[FirstExisting(files, 1)] IN
       /\ ev'.ret = f.v
       /\ store' = [cachedMemory |-> Str(f.v), lastLoadedSource |-> "file",
                    lastLoadedTime |-> now]
       /\ inflight' = inflight]_vars

\* C15 amended: such a call returns '' and caches nothing when a non-blank
\* url is configured; when none is, and the first existing candidate is
\* readable and not empty, it returns that file's content and caches it with
\* source 'file' and the current time; no fetch is started either way
C15_FileFallbackWithoutUrl ==
  [][LoadMiss =>
       /\ inflight' = inflight
       /\ UrlConfigured => (ev'.ret = <<>> /\ store' = store)
       /\ (~UrlConfigured /\ FirstExisting(files, 1) # 0
             /\ files[FirstExisting(files, 1)].kind = "file"
             /\ Truthy(files[FirstExisting(files, 1)].v)) =>
            LET f == files[FirstExisting(files, 1)] IN
            /\ ev'.ret = f.v
            /\ store' = [cachedMemory |-> Str(f.v), lastLoadedSource |-> "file",
                         lastLoadedTime |-> now]]_vars

\* loadTeamMemory found nothing cached and has cached the second candidate,
\* the first being absent
C15_Witness ==
  /\ ev.op = "load"
  /\ ev.res = "miss"
  /\ files[1].kind = "absent"
  /\ files[2].kind = "file"
  /\ ev.ret = files[2].v
  /\ lastLoadedSource = "file"
  /\ cachedMemory = Str(files[2].v)

(***************************************************************************)
(* The refresh timer.                                                      *)
(***************************************************************************)
\* C16: after any sequence of startAutoRefresh and stopAutoRefresh calls,
\* startup's start included, at most one interval timer is active, and the
\* active one is the one this.refreshTimer holds
C16_AtMostOneTimer ==
  /\ activeTimers <= 1
  /\ activeTimers = (IF refreshTimer THEN 1 ELSE 0)

\* startAutoRefresh was called while a timer was running, and a timer runs
C16_Witness ==
  /\ ev.op = "start"
  /\ ev.run
  /\ refreshTimer
  /\ activeTimers = 1

\* C17: once startAutoRefresh has returned while the effective refresh
\* interval is zero or negative, or while non-blank static content is
\* configured, no refresh timer is active, also when one was running before
\* the call
C17_TimerDisabledByConfig ==
  (ev.op = "start" /\ (refreshInterval <= 0 \/ StaticConfigured)) =>
    (~refreshTimer /\ activeTimers = 0)

\* startAutoRefresh was called under a negative interval while a timer was
\* running
C17_Witness ==
  /\ ev.op = "start"
  /\ ev.run
  /\ refreshInterval < 0
  /\ ~StaticConfigured
  /\ ~refreshTimer

\* this step ends the fetch of a refresh that the timer started
TimerFetchEnds ==
  /\ ev'.op = "fetch"
  /\ ev'.arg = "timer"
  /\ inflight' = inflight - 1

\* C18: the end of a fetch that the timer's callback started leaves the timer
\* as it was, whether the fetch failed or not; while the timer is held after
\* a failed one, the next tick can fire and starts a fetch again; and a fetch
\* that delivers content is taken over into the cache
C18_TimerSurvivesFailure ==
  /\ [][TimerFetchEnds =>
          /\ refreshTimer' = refreshTimer
          /\ activeTimers' = activeTimers
          /\ ev'.res = "loaded" => (~cachedMemory'.null /\ lastLoadedTime' = now)]_vars
  /\ []((FetchFailed(ev) /\ ev.arg = "timer" /\ ev.run /\ RefreshKind = "url")
          => (refreshTimer /\ ENABLED TimerFire))
  /\ [][(FetchFailed(ev) /\ ev.arg = "timer" /\ ev'.op = "tick" /\ RefreshKind = "url")
          => inflight' = inflight + 1]_vars

\* a fetch started by the timer has failed, the cache holds what an earlier
\* fetch delivered, and the timer is still held
C18_Witness ==
  /\ FetchFailed(ev)
  /\ ev.arg = "timer"
  /\ refreshTimer
  /\ activeTimers = 1
  /\ lastLoadedSource = "url-claude"

(***************************************************************************)
(* The gating of the injectors: models, prefixes and client verification,  *)
(* with static memory content configured.                                  *)
(***************************************************************************)
Prefixes(ps) == [set |-> TRUE, v |-> ps]

GateConfigs ==
  { \* default prefixes, injection for verified clients only
    [claude |-> [ClaudeBase EXCEPT !.content = MemB, !.onlyForRealClaudeCode = TRUE],
     openai |-> OpenAIBase],
    \* configured prefixes
    [claude |-> [ClaudeBase EXCEPT !.content = MemB,
                                   !.modelPrefixes = Prefixes(<< <<"claude-opus">> >>)],
     openai |-> [OpenAIBase EXCEPT !.modelPrefixes = Prefixes(<< <<"o1-">> >>)]],
    \* an empty list of prefixes on the Claude side
    [claude |-> [ClaudeBase EXCEPT !.content = MemB, !.modelPrefixes = Prefixes(<<>>),
                                   !.onlyForRealClaudeCode = TRUE],
     openai |-> OpenAIBase],
    \* the Claude side disabled
    [claude |-> [ClaudeBase EXCEPT !.enabled = FALSE, !.content = MemB],
     openai |-> OpenAIBase],
    \* the OpenAI side disabled, local files the only source
    [claude |-> ClaudeBase, openai |-> [OpenAIBase EXCEPT !.enabled = FALSE]] }

GateModels ==
  { ClaudeModel, CodexModel,
    [kind |-> "string", v |-> <<"claude-opus", "-4">>],
    [kind |-> "string", v |-> <<"o1-", "mini">>],
    [kind |-> "string", v |-> <<>>],
    [kind |-> "absent", v |-> <<>>],
    [kind |-> "number", v |-> <<>>] }

GateBodies ==
  { [model |-> m, system |-> SystemOf(<<S0, Seg(Plain, FALSE)>>),
     input |-> InputOf(<<UserText(Plain)>>), realCC |-> v, rest |-> "rest"] :
      m \in GateModels, v \in BOOLEAN }
  \cup
  { [model |-> ClaudeModel, system |-> StringSystem, input |-> NoInput,
     realCC |-> TRUE, rest |-> "rest"],
    [model |-> CodexModel, system |-> NoSystem, input |-> StringInput,
     realCC |-> TRUE, rest |-> "rest"] }

InitGate ==
  /\ config \in GateConfigs
  /\ files \in (IF RefreshKind = "file"
                THEN {<<Absent, Absent, Absent>>, <<FileOf(MemBlank), FileOf(MemB), Absent>>}
                ELSE {<<Absent, Absent, Absent>>})
  /\ body \in GateBodies
  /\ trace = TRUE
  /\ Constructed
  /\ RateIdle

NextGate ==
  \/ Tick
  \/ InjectClaude
  \/ InjectOpenAI
  \/ LoadTeamMemoryCall
  \/ RefreshMemory
  \/ InitResume
  \/ StartAutoRefresh
  \/ StopAutoRefresh
  \/ ClearCache

SpecGate == InitGate /\ [][NextGate]_vars

(***************************************************************************)
(* The rate-limit helper on its own: its functions are called on response  *)
(* bodies and usage summaries; the team-memory service stays as built.     *)
(***************************************************************************)
memoryVars ==
  <<cachedMemory, lastLoadedSource, lastLoadedTime, refreshTimer, activeTimers, config,
    now, files, inflight, initPc, body, pre, last, repeat, clean, trace, ev, stopCalled>>

\* the response bodies, status codes and usage summaries the helper is called on
RateInputs ==
  { [NoRateCall EXCEPT !.statusCode = statusCode, !.body = b] :
      statusCode \in {400, 429, 500}, b \in Payloads }
    \cup { [NoRateCall EXCEPT !.args = a] : a \in UpdateArgs }

InitRate ==
  /\ config = [claude |-> ClaudeBase, openai |-> OpenAIBase]
  /\ files = <<Absent, Absent, Absent>>
  /\ body = StoreBody
  /\ trace = FALSE
  /\ Constructed
  /\ counters = [tokens |-> 0, cost |-> 0, calls |-> 0]
  /\ call \in RateInputs

\* a relay service calls isRateLimitError(responseData)
IsRateLimitErrorCall ==
  LET r == isRateLimitError(call.body) IN
  /\ call' = [NoRateCall EXCEPT !.op = "isRateLimitError", !.statusCode = call.statusCode,
                                !.body = call.body, !.args = call.args,
                                !.threw = r.threw, !.ret = r.ret]
  /\ UNCHANGED <<counters, memoryVars>>

\* a relay service calls isRateLimitErrorWithStatus(statusCode, body)
IsRateLimitErrorWithStatusCall ==
  LET r == isRateLimitErrorWithStatus(call.statusCode, call.body) IN
  /\ call' = [NoRateCall EXCEPT !.op = "isRateLimitErrorWithStatus",
                                !.statusCode = call.statusCode, !.body = call.body,
                                !.args = call.args, !.threw = r.threw, !.ret = r.ret]
  /\ UNCHANGED <<counters, memoryVars>>

\* a relay service calls updateRateLimitCounters(rateLimitInfo, usageSummary, ...)
UpdateRateLimitCountersCall ==
  LET r == updateRateLimitCounters(call.args, counters) IN
  /\ counters.calls < MaxCalls
  /\ counters' = [r.counters EXCEPT !.calls = @ + 1]
  /\ call' = [NoRateCall EXCEPT !.op = "updateRateLimitCounters",
                                !.statusCode = call.statusCode, !.body = call.body,
                                !.args = call.args, !.before = counters,
                                !.threw = r.threw, !.error = r.error,
                                !.totals = r.totals,
                                !.priced = r.priced, !.fellBack = r.fellBack]
  /\ UNCHANGED memoryVars

NextRate ==
  \/ IsRateLimitErrorCall
  \/ IsRateLimitErrorWithStatusCall
  \/ UpdateRateLimitCountersCall

SpecRate == InitRate /\ [][NextRate]_vars

(***************************************************************************)
(* The background refresh: nobody stops the timer or changes the           *)
(* configuration.  The interval timer keeps firing, a fetch ends (the      *)
(* network timeout of lines 474 and 504-507 bounds it), and the network    *)
(* recovers: a fetch that can end again and again does end with content.   *)
(***************************************************************************)
LiveConfigs ==
  { \* a url and an interval on the Claude side
    [claude |-> [ClaudeBase EXCEPT !.url = "set", !.refreshInterval = 1],
     openai |-> OpenAIBase],
    \* the Claude side disabled, a url and an interval on the OpenAI side
    [claude |-> [ClaudeBase EXCEPT !.enabled = FALSE],
     openai |-> [OpenAIBase EXCEPT !.url = "set", !.refreshInterval = 1]],
    \* a blank url on the Claude side in front of the url of the OpenAI side:
    \* claudeConfig.url || openaiConfig.url is the blank one
    [claude |-> [ClaudeBase EXCEPT !.url = "blank", !.refreshInterval = 1],
     openai |-> [OpenAIBase EXCEPT !.url = "set"]],
    \* a negative interval on the Claude side in front of a positive one
    [claude |-> [ClaudeBase EXCEPT !.url = "set", !.refreshInterval = -1],
     openai |-> [OpenAIBase EXCEPT !.refreshInterval = 1]],
    \* no platform enabled
    [claude |-> [ClaudeBase EXCEPT !.enabled = FALSE, !.url = "set",
                                   !.refreshInterval = 1],
     openai |-> [OpenAIBase EXCEPT !.enabled = FALSE]] }

InitLive ==
  /\ config \in LiveConfigs
  /\ files = <<Absent, Absent, Absent>>
  /\ body = StoreBody
  /\ trace = TRUE
  /\ Constructed
  /\ RateIdle

\* a fetch of a refreshMemory call ends with non-blank content
FetchLoaded == FetchDone /\ ev'.res = "loaded"

NextLive ==
  \/ Tick
  \/ LoadTeamMemoryCall
  \/ RefreshMemory
  \/ FetchDone
  \/ InitFetchDone
  \/ InitResume
  \/ StartAutoRefresh
  \/ TimerFire
  \/ ClearCache

SpecLive ==
  /\ InitLive
  /\ [][NextLive]_vars
  /\ WF_vars(InitFetchDone)
  /\ WF_vars(InitResume)
  /\ WF_vars(TimerFire)
  /\ SF_vars(FetchLoaded)

\* the prefixes in force for a platform: the configured list, or the default
\* when none is configured
EffectivePrefixes(c, default) == IF c.modelPrefixes.set THEN c.modelPrefixes.v ELSE default

\* the envelope's model is a string that starts with one of the prefixes
ModelPasses(b, prefixes) ==
  /\ b.model.kind = "string"
  /\ \E i \in 1..Len(prefixes) :
       /\ Len(prefixes[i]) <= Len(b.model.v)
       /\ \A k \in 1..Len(prefixes[i]) : b.model.v[k] = prefixes[i][k]

\* C19: an injection call changes the envelope only if body.model is a string
\* that starts with one of the prefixes in force (['claude-sonnet'] for
\* Claude, ['gpt-', 'o1-', 'o3-'] for OpenAI when none is configured); with a
\* missing or non-string model, or no matching prefix, the envelope is as
\* before
C19_ModelGating ==
  /\ (last.op = "claude"
        /\ ~ModelPasses(pre, EffectivePrefixes(config.claude, <<<<"claude-sonnet">>>>)))
     => body = pre
  /\ (last.op = "openai"
        /\ ~ModelPasses(pre, EffectivePrefixes(config.openai,
                                               <<<<"gpt-">>, <<"o1-">>, <<"o3-">>>>)))
     => body = pre

\* a Claude call on a model that matches the default prefix but not the
\* configured one has left the envelope as it was
C19_Witness ==
  /\ last.op = "claude"
  /\ pre.model = ClaudeModel
  /\ config.claude.modelPrefixes.set
  /\ config.claude.modelPrefixes.v # <<>>
  /\ body = pre

\* C20: when the Claude configuration has onlyForRealClaudeCode set and the
\* request is not verified (the caller's flag is false, or no flag is passed
\* and the validator says no), injectToClaudeFormat leaves the envelope as it
\* was
C20_VerifiedClientGating ==
  (/\ last.op = "claude"
   /\ ev.op = "inject"
   /\ config.claude.onlyForRealClaudeCode
   /\ (ev.arg = "false" \/ (ev.arg = "null" /\ ~pre.realCC)))
  => body = pre

\* a call without a flag, on a request the validator rejects and whose model
\* passes the gating, has left the envelope as it was
C20_Witness ==
  /\ last.op = "claude"
  /\ ev.op = "inject"
  /\ ev.arg = "null"
  /\ ~pre.realCC
  /\ config.claude.onlyForRealClaudeCode
  /\ ModelPasses(pre, EffectivePrefixes(config.claude, <<<<"claude-sonnet">>>>))
  /\ body = pre

\* C21: an injection call on a disabled platform, or one for which
\* loadTeamMemory has no text but whitespace, does not throw and leaves the
\* envelope as it was: system and input are neither created nor reset
C21_SilentSkip ==
  /\ (last.op = "claude"
        /\ (~config.claude.enabled \/ Trim(LoadTeamMemory(store).ret) = <<>>))
     => (body = pre /\ ~last.threw)
  /\ (last.op = "openai"
        /\ (~config.openai.enabled \/ Trim(LoadTeamMemory(store).ret) = <<>>))
     => (body = pre /\ ~last.threw)

\* a Claude call on a system that is a string, with a model that passes the
\* gating, has found whitespace cached from the first local file
C21_Witness ==
  /\ last.op = "claude"
  /\ pre.model = ClaudeModel
  /\ pre.system.kind = "string"
  /\ cachedMemory = Str(MemBlank)
  /\ body = pre

\* C22: the marker a Claude call writes has the confidentiality banner right
\* after its start tag, before the memory content; the text an
\* OpenAI-Responses call writes, on the insert path and on the update path,
\* holds no banner
C22_BannerPlacement ==
  /\ Wrote("claude") =>
       LET m == memoryBlockRegex(WrittenText) IN
       /\ m.found
       /\ m.from + 3 <= Len(WrittenText)
       /\ SubSeq(WrittenText, m.from + 1, m.from + 3) = <<NL, Constitution, NL>>
  /\ Wrote("openai") =>
       \A i \in 1..Len(WrittenText) : WrittenText[i] # Constitution

\* an OpenAI-Responses call has replaced a marker of another timestamp
C22_Witness ==
  /\ Wrote("openai")
  /\ last.path = "update"
  /\ memoryBlockRegex(WrittenText).found

(***************************************************************************)
(* The rate-limit helper, under SpecRate.                                  *)
(***************************************************************************)
\* C23: isRateLimitErrorWithStatus(429, body) returns true for every body
\* (empty object, null, text, a body without rate-limit wording, a body that
\* cannot be read) and raises nothing: the body is not inspected.
C23_Status429Shortcut ==
  (call.op = "isRateLimitErrorWithStatus" /\ call.statusCode = 429)
    => (call.ret /\ ~call.threw)

C23_Witness ==
  /\ call.op = "isRateLimitErrorWithStatus"
  /\ call.statusCode = 429
  /\ call.body.kind = "throwing"
  /\ call.ret

\* C24: isRateLimitError and isRateLimitErrorWithStatus raise nothing on any
\* input, and a failure inside them yields false.
C24_ClassifiersNeverThrow ==
  call.op \in {"isRateLimitError", "isRateLimitErrorWithStatus"} => ~call.threw

\* C25: isRateLimitError returns true for every message that contains a
\* keyword of RATE_LIMIT_PATTERNS, whatever the casing of the message.
C25_KeywordCoverage ==
  LET m == extractErrorMessage(call.body)
      containsKeyword ==
        \E i \in 1..Len(RATE_LIMIT_PATTERNS) :
          includes(toLowerCase(m.v), toLowerCase(RATE_LIMIT_PATTERNS[i]))
  IN  (call.op = "isRateLimitError" /\ call.body.kind \in {"string", "object"}
         /\ ~m.null /\ containsKeyword)
        => call.ret

\* C26: isRateLimitError returns true for an object payload whose error field
\* is an object with a code, type or error sub-field whose lowercased value
\* contains a keyword, also when no message can be extracted from the payload.
C26_StructuredFields ==
  (call.op = "isRateLimitError" /\ call.body.kind = "object"
     /\ call.body.error.kind = "object"
     /\ \E v \in {call.body.error.code, call.body.error.type, call.body.error.error} :
          ~v.null /\ matchesPattern(toLowerCase(v.v)))
    => call.ret

\* C27: with a rate-limit context and no Redis client, updateRateLimitCounters
\* rejects with the error of line 112 before any counter is incremented and
\* before any pricing capability is called, and returns no totals.
C27_MissingStoreFatal ==
  (call.op = "updateRateLimitCounters" /\ ~call.args.info.null /\ ~call.args.client)
    => /\ call.threw
       /\ call.error = "redis"
       /\ counters.tokens = call.before.tokens
       /\ counters.cost = call.before.cost
       /\ ~call.priced
       /\ ~call.fellBack
       /\ call.totals = NoRateCall.totals

C27_Witness ==
  /\ call.op = "updateRateLimitCounters"
  /\ ~call.args.client
  /\ call.args.info.tokenCountKey /\ call.args.info.costCountKey
  /\ toNumber(call.args.usage[1]) > 0
  /\ call.args.primary = [kind |-> "number", n |-> 2]
  /\ call.error = "redis"

\* C28: once updateRateLimitCounters prices the usage, the secondary pricing
\* capability is called exactly when the primary one throws or yields a cost
\* that is zero or not of type number; when the secondary one fails as well,
\* totalCost and ratedCost are returned as 0, the cost counter is unchanged,
\* totalTokens is the sum of the four token values (a non-finite one counts
\* as 0) and the token counter, when there is one, has grown by that sum.
C28_CostFallback ==
  LET a == call.args
      failed(o) == o.kind \in {"throws", "none"} \/ (o.kind = "number" /\ o.n = 0)
      sum == toNumber(a.usage[1]) + toNumber(a.usage[2]) + toNumber(a.usage[3])
               + toNumber(a.usage[4])
  IN  (call.op = "updateRateLimitCounters" /\ call.priced)
        => /\ call.fellBack <=> failed(a.primary)
           /\ (failed(a.primary) /\ failed(a.fallback))
                => /\ ~call.threw
                   /\ call.totals = [totalTokens |-> sum, totalCost |-> 0,
                                     ratedCost |-> 0, nan |-> FALSE]
                   /\ counters.cost = call.before.cost
                   /\ counters.tokens = call.before.tokens
                        + (IF a.info.tokenCountKey THEN sum ELSE 0)

C28_Witness ==
  /\ call.op = "updateRateLimitCounters"
  /\ call.priced /\ call.fellBack
  /\ call.args.primary.kind = "throws" /\ call.args.fallback.kind = "throws"
  /\ call.args.info.tokenCountKey /\ call.args.info.costCountKey
  /\ ~call.args.usage[2].fin
  /\ counters.tokens = call.before.tokens + 2
  /\ counters.cost = call.before.cost

(***************************************************************************)
(* Cancellation, under SpecStore.                                          *)
(***************************************************************************)
\* C29: from the return of stopAutoRefresh until the caller itself calls
\* startAutoRefresh again, no refresh timer is active (so no timer-driven
\* refresh can start), also when stopAutoRefresh was called while the first
\* refresh of the startup initialization was still in flight.
C29_StopIsFinal ==
  stopCalled => (~refreshTimer /\ activeTimers = 0)

(***************************************************************************)
(* The caller's content, under Spec.                                       *)
(***************************************************************************)
\* C30: an injection call discards nothing the caller put in the target
\* container: a system (Claude) or input (OpenAI-Responses) that is present
\* but not a list, such as a plain string prompt, is still in the envelope
\* after the call, as it was or as the text of an element of the list; a list
\* loses no element.
C30_CallerContentKept ==
  /\ (last.op = "claude" /\ pre.system.kind = "string") =>
       \/ body.system = pre.system
       \/ \E i \in 1..Len(body.system.segs) :
            body.system.segs[i].text = TextOf(pre.system.str)
  /\ (last.op = "openai" /\ pre.input.kind = "string") =>
       \/ body.input = pre.input
       \/ \E i \in 1..Len(body.input.items) :
            /\ body.input.items[i].kind = "object"
            /\ \E j \in 1..Len(body.input.items[i].content.items) :
                 body.input.items[i].content.items[j].text = TextOf(pre.input.str)
  /\ (last.op = "claude" /\ pre.system.kind = "array") =>
       Len(body.system.segs) >= Len(pre.system.segs)
  /\ (last.op = "openai" /\ pre.input.kind = "array") =>
       Len(body.input.items) >= Len(pre.input.items)

C32_AllOrNothing ==
  LET a == call.args IN
  (call.op = "updateRateLimitCounters" /\ ~a.info.null
     /\ a.info.tokenCountKey /\ a.info.costCountKey
     /\ toNumber(a.usage[1]) + toNumber(a.usage[2]) + toNumber(a.usage[3])
          + toNumber(a.usage[4]) > 0
     /\ totalCostOf(a.primary, a.fallback).cost > 0)
    => ((counters.tokens # call.before.tokens) <=> (counters.cost # call.before.cost))

(***************************************************************************)
(* Eventual availability, under SpecLive.                                  *)
(***************************************************************************)
\* loadTeamMemory() would return non-empty content
Available == NonBlank(LoadTeamMemory(store).ret)

\* a platform is enabled, the source refreshMemory reads is a url (no static
\* content) and the interval startAutoRefresh reads is positive
RefreshingFromUrl == isEnabled /\ RefreshKind = "url" /\ refreshInterval > 0

\* C33: with a platform enabled, a url as the source (no static content), a
\* positive refresh interval, the timer never stopped and a network that
\* recovers, loadTeamMemory eventually returns non-empty content, also from
\* the point where the startup fetch has ended without content.
C33_EventualAvailability ==
  /\ RefreshingFromUrl ~> Available
  /\ (RefreshingFromUrl /\ initPc = "resume" /\ ~Available) ~> Available

C33_Witness ==
  /\ initPc = "resume"
  /\ ev.op = "fetch" /\ ev.res = "rejected" /\ ev.arg = "init"
  /\ cachedMemory.null
  /\ ~Available
  /\ RefreshingFromUrl
====
